---- MODULE Spec2Model ----
(***************************************************************************)
(* Easy Price Monitor: the price-change detection and alert-consolidation  *)
(* pipeline of easyPriceMonitor.main(), with the two change detectors      *)
(* (storage/csv_storage.py, storage/mysql_storage.py).                     *)
(*                                                                         *)
(* Units.  A price is an integer number of grosz (1/100 PLN): the parsers  *)
(* return two-decimal prices and the prices table is DECIMAL(10,2); the    *)
(* prices used are small (0.90 and 1.00 PLN) so that the scaled products   *)
(* of the percent computations stay within 32-bit integers.  A             *)
(* percent_change is an integer number of hundredths of a percent (both    *)
(* detectors round to two decimals).  A timestamp is an integer tick; the  *)
(* order of ticks is the order of the ISO strings / DATETIME values.       *)
(* An optional value (Python None, SQL NULL) is the empty sequence <<>>,   *)
(* a present value v is <<v>>.                                             *)
(*                                                                         *)
(* MySQL tables.  save_price_mysql inserts the shop, the product and the   *)
(* product URL of a row before its price (insert-if-missing), so the       *)
(* products, shops and product_urls tables are functions of the prices     *)
(* table: a name is in `products` iff it has a price row, and every price  *)
(* row has its product_urls row (the JOIN of the window query keeps it).   *)
(* A product id is ProductId(name).                                        *)
(***************************************************************************)
EXTENDS Integers, Sequences, FiniteSets, TLC

VARIABLES
    run,            \* number of the invocation of main() in this process
    pc,             \* position of the run
    products,       \* products.json: the watchlist, <<[name, shops], ...>>
    handlers,       \* args.handlers
    settings,       \* settings[0]: bEnableAlerts, percentDropThreshold, ProductIDs
    idx,            \* index of the product being fetched
    sidx,           \* index of the shop being fetched within products[idx]
    hidx,           \* index of the handler being run (save loop, detect loop)
    clock,          \* datetime.now()
    results,        \* observations fetched in this run
    scrape_errors,  \* (product, shop) pairs whose fetch raised in this run
    product_names,  \* module-level list of product names
    csv_file,       \* rows of price_history.csv, in file order
    db_prices,      \* rows of the MySQL prices table, in insertion order
    all_changes,    \* change records collected / deduplicated / filtered
    handlers_used,  \* backends that contributed changes
    alerts,         \* the alert batch
    sent,           \* the batches send_email_alert was called with, in order
    changes         \* the last output of a detector run on its own

vars == <<run, pc, products, handlers, settings, idx, sidx, hidx, clock, results,
          scrape_errors, product_names, csv_file, db_prices, all_changes,
          handlers_used, alerts, sent, changes>>

-----------------------------------------------------------------------------
(* Bounds and value sets *)

MaxHist == 3        \* rows of a stored history a detector is run on
MaxHandlers == 2    \* handler names on the command line
MaxRuns == 2        \* invocations of main() in one process

Prices == {0, 90, 100}
Ticks == {1, 2, 3}

None == << >>
Some(v) == <<v>>
IsNone(o) == Len(o) = 0
Val(o) == o[1]

Abs(n) == IF n < 0 THEN -n ELSE n
Max(S) == CHOOSE x \in S : \A y \in S : y <= x

\* the id the products table gives a name (AUTO_INCREMENT, one row per name)
ProductId(name) == IF name = "Widget" THEN 1 ELSE 2

KeyOf(row) == <<row.product, row.shop>>
ChangeKey(c) == <<c.product_name, c.shop_name>>

-----------------------------------------------------------------------------
(* Rounding *)

\* Python round(n/d, 0) for d > 0: round half to even
RoundHalfEven(n, d) ==
    LET q == n \div d
        r == n % d
    IN  IF 2 * r < d THEN q
        ELSE IF 2 * r > d THEN q + 1
        ELSE IF q % 2 = 0 THEN q ELSE q + 1

\* MySQL ROUND on an exact DECIMAL n/d, d > 0: round half away from zero
RoundHalfAway(n, d) ==
    IF n >= 0 THEN (2 * n + d) \div (2 * d)
    ELSE -((2 * (-n) + d) \div (2 * d))

\* csv_storage: round((price_diff / previous) * 100, 2), in hundredths of a percent
CsvPercent(diff, prev) == RoundHalfEven(diff * 10000, prev)

\* mysql_storage: ROUND(diff / prev * 100, 2); DECIMAL(10,2) / DECIMAL(10,2) has
\* scale 6 (div_precision_increment = 4), then * 100, then ROUND(., 2)
MysqlPercent(diff, prev) == RoundHalfAway(RoundHalfAway(diff * 1000000, prev), 100)

-----------------------------------------------------------------------------
(* csv_storage.get_price_changes_csv *)

\* stands for the price text of a CSV row that float() rejects
Unparseable == -1

\* float(row["price"]) returns
Parseable(row) == row.price # Unparseable

RECURSIVE KeysInOrder(_)
\* the keys of product_shop_prices in dict insertion order
KeysInOrder(rows) ==
    IF rows = << >> THEN << >>
    ELSE LET k == KeyOf(rows[1])
         IN  <<k>> \o KeysInOrder(SelectSeq(Tail(rows), LAMBDA r : KeyOf(r) # k))

\* product_shop_prices[key]: the rows of the key, in file order
GroupOf(rows, key) == SelectSeq(rows, LAMBDA r : KeyOf(r) = key)

\* a detector that takes the rows in file order, without sorting them
Unsorted(s) == s

RECURSIVE SortByDate(_)
\* prices.sort(key=lambda x: x["date"]): ascending, stable
SortByDate(s) ==
    IF Len(s) <= 1 THEN s
    ELSE LET init == SortByDate(SubSeq(s, 1, Len(s) - 1))
             x == s[Len(s)]
             before == SelectSeq(init, LAMBDA e : e.date <= x.date)
             after == SelectSeq(init, LAMBDA e : e.date > x.date)
         IN  before \o <<x>> \o after

\* the loop body for one (product_name, shop_name): no or one change record
CsvChangeOf(key, prices) ==
    IF Len(prices) < 2 THEN << >>
    ELSE LET s == SortByDate(prices)
             latest == s[Len(s)]
             previous == s[Len(s) - 1]
             price_diff == latest.price - previous.price
             percent_change == IF previous.price # 0
                               THEN CsvPercent(price_diff, previous.price)
                               ELSE 0
         IN  IF price_diff # 0
             THEN << [product_id |-> None,
                      product_name |-> key[1],
                      shop_name |-> key[2],
                      price |-> latest.price,
                      timestamp |-> latest.date,
                      price_diff |-> Some(price_diff),
                      percent_change |-> Some(percent_change)] >>
             ELSE << >>

RECURSIVE CsvChangesFor(_, _)
CsvChangesFor(keys, rows) ==
    IF keys = << >> THEN << >>
    ELSE CsvChangeOf(keys[1], GroupOf(rows, keys[1])) \o CsvChangesFor(Tail(keys), rows)

get_price_changes_csv(rows) == CsvChangesFor(KeysInOrder(rows), rows)

-----------------------------------------------------------------------------
(* mysql_storage.get_price_changes *)

\* WHERE pr.product_id IN (product_ids): the positions of the selected price rows
SelectedRows(db, product_ids) ==
    {i \in 1..Len(db) : \E n \in 1..Len(product_ids) : product_ids[n] = ProductId(db[i].product)}

\* PARTITION BY pr.product_id, pr.shop_id
PartitionOf(db, sel, key) == {i \in sel : KeyOf(db[i]) = key}

\* ROW_NUMBER() OVER (... ORDER BY pr.timestamp DESC) = 1: a row of the partition with
\* the greatest timestamp; rows of equal timestamp are numbered in an unspecified order
RowNumberOne(db, part) == {i \in part : \A j \in part : db[j].date <= db[i].date}

\* LAG(pr.price) OVER (... ORDER BY pr.timestamp) for row i: the row just before i in
\* an ascending order of the partition, 0 standing for no row (NULL).  Rows of equal
\* timestamp are ordered in an unspecified way, so the row before i is another row of
\* i's timestamp, or a row of the next lower timestamp, or none when there is no lower
LagRows(db, part, i) ==
    LET same == {j \in part \ {i} : db[j].date = db[i].date}
        lower == {j \in part : db[j].date < db[i].date}
        below == IF lower = {} THEN {0}
                 ELSE {j \in lower : \A k \in lower : db[k].date <= db[j].date}
    IN  same \cup below

\* the SELECT list for row i with lagged row j (0: LAG is NULL).  NULL operands and
\* division by zero give NULL
MysqlRowOf(db, i, j) ==
    [product_id |-> Some(ProductId(db[i].product)),
     product_name |-> db[i].product,
     shop_name |-> db[i].shop,
     price |-> db[i].price,
     timestamp |-> db[i].date,
     price_diff |-> IF j = 0 THEN None ELSE Some(db[i].price - db[j].price),
     percent_change |-> IF j = 0 THEN None
                        ELSE IF db[j].price = 0 THEN None
                        ELSE Some(MysqlPercent(db[i].price - db[j].price, db[j].price))]

\* the rows the query can return for one partition (WHERE rn = 1)
MysqlRowsOf(db, sel, key) ==
    LET part == PartitionOf(db, sel, key)
    IN  {MysqlRowOf(db, i, j) : <<i, j>> \in
            {p \in part \X (part \cup {0}) : p[1] \in RowNumberOne(db, part)
                                              /\ p[2] \in LagRows(db, part, p[1])}}

\* cursor.fetchall(): one row per partition, ORDER BY timestamp DESC (rows of equal
\* timestamp in an unspecified order): the set of row sequences the query can return
QueryResults(db, product_ids) ==
    LET sel == SelectedRows(db, product_ids)
        keys == {KeyOf(db[i]) : i \in sel}
        cand == UNION {MysqlRowsOf(db, sel, k) : k \in keys}
        n == Cardinality(keys)
    IN  {s \in [1..n -> cand] :
            /\ \A a, b \in 1..n : a < b => /\ ChangeKey(s[a]) # ChangeKey(s[b])
                                           /\ s[a].timestamp >= s[b].timestamp}

RECURSIVE LatestByKey(_, _)
\* latest = {}; for row in rows: if key not in latest: latest[key] = row
\* (key = (product_id, shop_name)); list(latest.values())
LatestByKey(rows, seenKeys) ==
    IF rows = << >> THEN << >>
    ELSE LET key == <<rows[1].product_id, rows[1].shop_name>>
         IN  IF key \in seenKeys THEN LatestByKey(Tail(rows), seenKeys)
             ELSE <<rows[1]>> \o LatestByKey(Tail(rows), seenKeys \cup {key})

\* the lists get_price_changes(db_config, product_ids) can return, given that the
\* connection succeeds
get_price_changes(db, product_ids) ==
    IF product_ids = << >> THEN {<< >>}
    ELSE {LatestByKey(rows, {}) : rows \in QueryResults(db, product_ids)}

-----------------------------------------------------------------------------
(* Inputs of a run of main() *)

\* pricephraser.CORE_HANDLERS: the shops with a registered price parser
CORE_HANDLERS == {"x-kom", "mediaexpert"}

\* storage.STORAGE_HANDLERS
STORAGE_HANDLERS == {"csv", "mysql"}

Shop(n) == [name |-> n]
Product(n, shops) == [name |-> n, shops |-> shops]

\* products.json of the run; "allegro" is a shop without an entry in CORE_HANDLERS
Watchlists ==
    { << Product("Widget", <<Shop("x-kom"), Shop("allegro")>>) >>,
      << Product("Widget", <<Shop("x-kom")>>), Product("Gadget", <<Shop("mediaexpert")>>) >> }

\* --handlers: absent (the empty list) or up to MaxHandlers storage handler names
HandlerArgs == UNION {[1..n -> STORAGE_HANDLERS] : n \in 0..MaxHandlers}

\* the prices a fetch can return
FetchPrices == {90, 100}

\* percentDropThreshold values, in hundredths of a percent
Thresholds == {1000, 1001}

\* settings[0]["alerts"] of easyPrice_monitor_config.json
SettingsChoices ==
    [bEnableAlerts : {TRUE}, percentDropThreshold : Thresholds,
     ProductIDs : {<< >>, <<ProductId("Gadget")>>}]
    \cup [bEnableAlerts : {FALSE}, percentDropThreshold : {1000}, ProductIDs : {<< >>}]

Obs(p, s, price, date) == [product |-> p, shop |-> s, price |-> price, date |-> date]

\* what a backend holds before the run: nothing, or one earlier observation of one
\* pair at the highest price or at price 0, or two of one pair at different prices,
\* the second later than the first
SeedPairs == {<<"Widget", "x-kom">>, <<"Gadget", "mediaexpert">>}
SeedHistories ==
    {<< >>}
    \cup {<<Obs(k[1], k[2], a, 1)>> : k \in SeedPairs, a \in {0, Max(FetchPrices)}}
    \cup {<<Obs(k[1], k[2], a, 1), Obs(k[1], k[2], b, 2)>> :
             <<k, a, b>> \in {t \in SeedPairs \X FetchPrices \X FetchPrices : t[2] # t[3]}}

\* the clock of a run starts after every stored observation
SeedTicks == {1, 2}
FirstTick == Max(SeedTicks) + 1

Uses(hs, name) == \E n \in 1..Len(hs) : hs[n] = name

Init ==
    /\ run = 1
    /\ pc = "fetch"
    /\ products \in Watchlists
    /\ handlers \in HandlerArgs
    /\ settings \in SettingsChoices
    /\ idx = 1
    /\ sidx = 1
    /\ hidx = 1
    /\ clock = FirstTick
    /\ results = << >>
    /\ scrape_errors = {}
    /\ product_names = << >>
    \* a backend the run does not name is neither written nor read: it holds nothing
    /\ csv_file \in IF Uses(handlers, "csv") THEN SeedHistories ELSE {<< >>}
    /\ db_prices \in IF Uses(handlers, "mysql") THEN SeedHistories ELSE {<< >>}
    /\ all_changes = << >>
    /\ handlers_used = << >>
    /\ alerts = << >>
    /\ sent = << >>
    /\ changes = << >>

-----------------------------------------------------------------------------
(* main(): the fetch pass *)

\* for idx, product in enumerate(products): product_names.append(product_name)
BeginProduct ==
    /\ pc = "fetch"
    /\ idx <= Len(products)
    /\ product_names' = Append(product_names, products[idx].name)
    /\ IF Len(products[idx].shops) = 0
       THEN /\ idx' = idx + 1
            /\ pc' = "fetch"
       ELSE /\ idx' = idx
            /\ pc' = "shops"
    /\ sidx' = 1
    /\ UNCHANGED <<run, products, handlers, settings, hidx, clock, results, scrape_errors,
                   csv_file, db_prices, all_changes, handlers_used, alerts, sent, changes>>

\* the end of one iteration of "for shop in product['shops']"
NextShop ==
    IF sidx < Len(products[idx].shops)
    THEN /\ sidx' = sidx + 1
         /\ idx' = idx
         /\ pc' = "shops"
    ELSE /\ sidx' = 1
         /\ idx' = idx + 1
         /\ pc' = "fetch"

\* get_price(shop) returns: the observation is appended to results
FetchOk ==
    /\ pc = "shops"
    /\ products[idx].shops[sidx].name \in CORE_HANDLERS
    /\ \E price \in FetchPrices :
          results' = Append(results, Obs(products[idx].name, products[idx].shops[sidx].name,
                                         price, clock))
    /\ clock' = clock + 1
    /\ NextShop
    /\ UNCHANGED <<run, products, handlers, settings, hidx, scrape_errors, product_names,
                   csv_file, db_prices, all_changes, handlers_used, alerts, sent, changes>>

\* a fetch pass that records a failure only for a shop that has a parser
ForgetUnregistered(errors, key) ==
    IF key[2] \in CORE_HANDLERS THEN errors \cup {key} ELSE errors

\* a fetch pass in which a raising get_price leaves no trace
DropFailure(errors, key) == errors

\* scrape_errors.add((product_name, shop['name']))
RecordFailure(errors, key) == errors \cup {key}

\* get_price(shop) raises (no handler for the shop, or the shop's parser raises)
FetchFail ==
    /\ pc = "shops"
    /\ scrape_errors' = RecordFailure(scrape_errors,
                                      <<products[idx].name, products[idx].shops[sidx].name>>)
    /\ NextShop
    /\ UNCHANGED <<run, products, handlers, settings, hidx, clock, results, product_names,
                   csv_file, db_prices, all_changes, handlers_used, alerts, sent, changes>>

\* the fetch loop ends
EndFetch ==
    /\ pc = "fetch"
    /\ idx > Len(products)
    /\ pc' = "save"
    /\ hidx' = 1
    /\ UNCHANGED <<run, products, handlers, settings, idx, sidx, clock, results, scrape_errors,
                   product_names, csv_file, db_prices, all_changes, handlers_used, alerts,
                   sent, changes>>

-----------------------------------------------------------------------------
(* main(): the storage handlers *)

\* csv_storage.save_price_csv: every row of results is appended to the file
save_price_csv(file, rows) == file \o rows

\* mysql_storage.save_price_mysql, the connection made: one price row per result
save_price_mysql(db, rows) == db \o rows

SaveCsv ==
    /\ pc = "save"
    /\ hidx <= Len(handlers)
    /\ handlers[hidx] = "csv"
    /\ csv_file' = save_price_csv(csv_file, results)
    /\ hidx' = hidx + 1
    /\ UNCHANGED <<run, pc, products, handlers, settings, idx, sidx, clock, results,
                   scrape_errors, product_names, db_prices, all_changes, handlers_used,
                   alerts, sent, changes>>

\* mysql_handler: the connection error is caught inside save_price_mysql
SaveMysql ==
    /\ pc = "save"
    /\ hidx <= Len(handlers)
    /\ handlers[hidx] = "mysql"
    /\ \E connected \in BOOLEAN :
          db_prices' = IF connected THEN save_price_mysql(db_prices, results) ELSE db_prices
    /\ hidx' = hidx + 1
    /\ UNCHANGED <<run, pc, products, handlers, settings, idx, sidx, clock, results,
                   scrape_errors, product_names, csv_file, all_changes, handlers_used,
                   alerts, sent, changes>>

\* a run that collects the changes whatever the flag says
DetectAnyway(enabled) == "detect"

\* if not alerts_config.get("bEnableAlerts", True): return
AfterSave(enabled) == IF enabled THEN "detect" ELSE "done"

\* the handlers loop has ended: alerts_config = settings[0]["alerts"]
AlertsConfig ==
    /\ pc = "save"
    /\ hidx > Len(handlers)
    /\ pc' = AfterSave(settings.bEnableAlerts)
    /\ hidx' = 1
    /\ UNCHANGED <<run, products, handlers, settings, idx, sidx, clock, results, scrape_errors,
                   product_names, csv_file, db_prices, all_changes, handlers_used, alerts,
                   sent, changes>>

-----------------------------------------------------------------------------
(* main(): collecting the changes of the requested backends *)

RECURSIVE LookupIds(_, _)
\* for name in product_names: product_id = get_product_id_by_name_mysql(name);
\* if product_id: PRODUCT_IDS.append(product_id)
LookupIds(names, db) ==
    IF names = << >> THEN << >>
    ELSE (IF \E n \in 1..Len(db) : db[n].product = names[1]
          THEN <<ProductId(names[1])>> ELSE << >>)
         \o LookupIds(Tail(names), db)

\* PRODUCT_IDS after the "if not PRODUCT_IDS" block, every lookup having connected
ProductIdsOf(configured, names, db) ==
    IF configured = << >> THEN LookupIds(names, db) ELSE configured

\* the "mysql" branch, every connection made
DetectMysql ==
    /\ pc = "detect"
    /\ hidx <= Len(handlers)
    /\ handlers[hidx] = "mysql"
    /\ LET ids == ProductIdsOf(settings.ProductIDs, product_names, db_prices)
       IN  /\ settings' = [settings EXCEPT !.ProductIDs = ids]
           /\ \E found \in get_price_changes(db_prices, ids) :
                 all_changes' = all_changes \o found
    /\ handlers_used' = Append(handlers_used, "MySQL")
    /\ hidx' = hidx + 1
    /\ UNCHANGED <<run, pc, products, handlers, idx, sidx, clock, results, scrape_errors,
                   product_names, csv_file, db_prices, alerts, sent, changes>>

\* the "mysql" branch, mysql.connector.connect raising: in the lookup of the
\* (k+1)-th product name, or in get_price_changes; nothing in main() catches it
DetectMysqlRaises ==
    /\ pc = "detect"
    /\ hidx <= Len(handlers)
    /\ handlers[hidx] = "mysql"
    /\ \/ /\ settings.ProductIDs = << >>
          /\ \E k \in 0..(Len(product_names) - 1) :
                settings' = [settings EXCEPT
                                !.ProductIDs = LookupIds(SubSeq(product_names, 1, k), db_prices)]
       \/ LET ids == ProductIdsOf(settings.ProductIDs, product_names, db_prices)
          IN  /\ ids # << >>
              /\ settings' = [settings EXCEPT !.ProductIDs = ids]
    /\ handlers_used' = Append(handlers_used, "MySQL")
    /\ pc' = "raised"
    /\ UNCHANGED <<run, products, handlers, idx, sidx, hidx, clock, results, scrape_errors,
                   product_names, csv_file, db_prices, all_changes, alerts, sent, changes>>

\* the "csv" branch, every price of the file parsed
DetectCsv ==
    /\ pc = "detect"
    /\ hidx <= Len(handlers)
    /\ handlers[hidx] = "csv"
    /\ \A n \in 1..Len(csv_file) : Parseable(csv_file[n])
    /\ all_changes' = all_changes \o get_price_changes_csv(csv_file)
    /\ handlers_used' = Append(handlers_used, "CSV")
    /\ hidx' = hidx + 1
    /\ UNCHANGED <<run, pc, products, handlers, settings, idx, sidx, clock, results,
                   scrape_errors, product_names, csv_file, db_prices, alerts, sent, changes>>

RECURSIVE UniqueFrom(_, _)
\* for change in all_changes: if key not in seen: seen.add(key);
\* unique_changes.append(change)
UniqueFrom(cs, seen) ==
    IF cs = << >> THEN << >>
    ELSE IF ChangeKey(cs[1]) \in seen THEN UniqueFrom(Tail(cs), seen)
         ELSE <<cs[1]>> \o UniqueFrom(Tail(cs), seen \cup {ChangeKey(cs[1])})

\* an aggregation that keeps every record of the concatenated batches
KeepDuplicates(cs) == cs

RECURSIVE KeepLastOf(_)
\* a deduplication in which a later change of a key replaces the earlier one
KeepLastOf(cs) ==
    IF cs = << >> THEN << >>
    ELSE IF \E n \in 2..Len(cs) : ChangeKey(cs[n]) = ChangeKey(cs[1])
         THEN KeepLastOf(Tail(cs))
         ELSE <<cs[1]>> \o KeepLastOf(Tail(cs))

\* "Remove duplicate changes": seen = set(); unique_changes = []; the first change of
\* each (product_name, shop_name) is kept
UniqueChanges(cs) == UniqueFrom(cs, {})

\* the end of the handler loop, then "Remove duplicate changes"
Aggregate ==
    /\ pc = "detect"
    /\ hidx > Len(handlers)
    /\ all_changes' = IF all_changes # << >> THEN UniqueChanges(all_changes)
                      ELSE all_changes
    /\ pc' = "filter_errors"
    /\ UNCHANGED <<run, products, handlers, settings, idx, sidx, hidx, clock, results,
                   scrape_errors, product_names, csv_file, db_prices, handlers_used,
                   alerts, sent, changes>>

-----------------------------------------------------------------------------
(* main(): the two filter passes *)

\* a pass that looks the key up as (shop_name, product_name)
DropSwappedKey(cs, errors) ==
    SelectSeq(cs, LAMBDA c : <<c.shop_name, c.product_name>> \notin errors)

RECURSIVE RemoveFrom(_, _, _)
RemoveFrom(cs, errors, n) ==
    IF n > Len(cs) THEN cs
    ELSE IF ChangeKey(cs[n]) \in errors
         THEN RemoveFrom(SubSeq(cs, 1, n - 1) \o SubSeq(cs, n + 1, Len(cs)), errors, n + 1)
         ELSE RemoveFrom(cs, errors, n + 1)

\* a pass that removes from the list it iterates over, so that the change after a
\* removed one is skipped
DropWhileIterating(cs, errors) == RemoveFrom(cs, errors, 1)

\* filtered: the changes whose key is not in scrape_errors, in order
DropScrapeErrors(cs, errors) == SelectSeq(cs, LAMBDA c : ChangeKey(c) \notin errors)

\* if all_changes and scrape_errors: ... all_changes = filtered
ScrapeErrorPass(cs, errors) ==
    IF cs # << >> /\ errors # {} THEN DropScrapeErrors(cs, errors) ELSE cs

FilterScrapeErrors ==
    /\ pc = "filter_errors"
    /\ all_changes' = ScrapeErrorPass(all_changes, scrape_errors)
    /\ pc' = "filter_watchlist"
    /\ UNCHANGED <<run, products, handlers, settings, idx, sidx, hidx, clock, results,
                   scrape_errors, product_names, csv_file, db_prices, handlers_used,
                   alerts, sent, changes>>

\* a watchlist pass that keeps every change
KeepEvery(cs, names) == cs

\* [c for c in all_changes if c.get('product_name') in product_names]
KeepWatched(cs, names) ==
    SelectSeq(cs, LAMBDA c : \E n \in 1..Len(names) : names[n] = c.product_name)

\* a run that goes on without the watchlist pass
SkipWatchlistPass(cs, names) == cs

\* if all_changes: all_changes = [...]
WatchlistPass(cs, names) == IF cs # << >> THEN KeepWatched(cs, names) ELSE cs

FilterWatchlist ==
    /\ pc = "filter_watchlist"
    /\ all_changes' = WatchlistPass(all_changes, product_names)
    /\ pc' = "classify"
    /\ UNCHANGED <<run, products, handlers, settings, idx, sidx, hidx, clock, results,
                   scrape_errors, product_names, csv_file, db_prices, handlers_used,
                   alerts, sent, changes>>

-----------------------------------------------------------------------------
(* main(): threshold classification and dispatch *)

\* a classification that alerts only above the threshold
AlertedAbove(c, percent_threshold) ==
    /\ ~IsNone(c.percent_change)
    /\ Abs(Val(c.percent_change)) > percent_threshold

\* if percent is not None: ... if abs(percent_float) >= percent_threshold
Alerted(c, percent_threshold) ==
    /\ ~IsNone(c.percent_change)
    /\ Abs(Val(c.percent_change)) >= percent_threshold

\* alerts = []; for c in all_changes: ... alerts.append(c)
\* a classification that puts every filtered change in the batch
EveryChange(cs, percent_threshold) == cs

\* a classification that builds the alert list back to front
AlertsReversed(cs, percent_threshold) ==
    LET kept == SelectSeq(cs, LAMBDA c : Alerted(c, percent_threshold))
    IN  [n \in 1..Len(kept) |-> kept[Len(kept) + 1 - n]]

\* alerts: the changes that pass the test, in order
AlertsOf(cs, percent_threshold) == SelectSeq(cs, LAMBDA c : Alerted(c, percent_threshold))

Classify ==
    /\ pc = "classify"
    /\ IF all_changes # << >>
       THEN /\ alerts' = AlertsOf(all_changes, settings.percentDropThreshold)
            /\ pc' = "dispatch"
       ELSE /\ alerts' = alerts
            /\ pc' = "done"
    /\ UNCHANGED <<run, products, handlers, settings, idx, sidx, hidx, clock, results,
                   scrape_errors, product_names, csv_file, db_prices, all_changes,
                   handlers_used, sent, changes>>

\* a call of send_email_alert: the batch it is given, the SMTP sessions it has opened
\* and how the last one ended
Call(batch) == [batch |-> batch, sessions |-> 0, outcome |-> "none"]

\* a dispatch that calls send_email_alert once for every record of the batch
CallPerRecord(batch) == [n \in 1..Len(batch) |-> Call(<<batch[n]>>)]

\* send_email_alert(alerts, smtp_config, email_from, email_to): one call with the
\* whole batch
CallsFor(batch) == <<Call(batch)>>

\* if alerts: send_email_alert(alerts, ...); the message is built from the batch
Dispatch ==
    /\ pc = "dispatch"
    /\ alerts # << >>
    /\ sent' = sent \o CallsFor(alerts)
    /\ pc' = "smtp"
    /\ UNCHANGED <<run, products, handlers, settings, idx, sidx, hidx, clock, results,
                   scrape_errors, product_names, csv_file, db_prices, all_changes,
                   handlers_used, alerts, changes>>

\* how the SMTP session of send_email_alert can end: the message sent, or an
\* exception from connecting, from login or from send_message
SmtpOutcomes == {"sent", "connect_failed", "login_failed", "send_failed"}

\* a notifier that opens another session after a failed one
RetryOnFailure(outcome) == IF outcome = "sent" THEN "done" ELSE "smtp"

\* after the try block: the success or the caught exception is printed and
\* send_email_alert returns to main(), which ends
AfterSession(outcome) == "done"

\* send_email_alert: the try block around the SMTP session
SmtpSession ==
    /\ pc = "smtp"
    /\ \E outcome \in SmtpOutcomes :
          /\ sent' = [sent EXCEPT ![Len(sent)] =
                                    [@ EXCEPT !.sessions = @ + 1, !.outcome = outcome]]
          /\ pc' = AfterSession(outcome)
    /\ UNCHANGED <<run, products, handlers, settings, idx, sidx, hidx, clock, results,
                   scrape_errors, product_names, csv_file, db_prices, all_changes,
                   handlers_used, alerts, changes>>

\* else: "No price changes exceeded the alert threshold"
NoDispatch ==
    /\ pc = "dispatch"
    /\ alerts = << >>
    /\ pc' = "done"
    /\ UNCHANGED <<run, products, handlers, settings, idx, sidx, hidx, clock, results,
                   scrape_errors, product_names, csv_file, db_prices, all_changes,
                   handlers_used, alerts, sent, changes>>

Next ==
    \/ BeginProduct
    \/ FetchOk
    \/ FetchFail
    \/ EndFetch
    \/ SaveCsv
    \/ SaveMysql
    \/ AlertsConfig
    \/ DetectMysql
    \/ DetectMysqlRaises
    \/ DetectCsv
    \/ Aggregate
    \/ FilterScrapeErrors
    \/ FilterWatchlist
    \/ Classify
    \/ Dispatch
    \/ SmtpSession
    \/ NoDispatch

Spec == Init /\ [][Next]_vars

-----------------------------------------------------------------------------
(* main() invoked again in the same process *)

\* main() has returned and is called again: products.json is read again and the
\* locals of main() start afresh; the module globals settings (ProductIDs appended to
\* by an earlier invocation included) and product_names keep their values, as do the
\* backends and the command line.  sent logs the calls of the current invocation
Reinvoke ==
    /\ pc = "done"
    /\ run < MaxRuns
    /\ run' = run + 1
    /\ products' \in Watchlists
    /\ results' = << >>
    /\ scrape_errors' = {}
    /\ idx' = 1
    /\ sidx' = 1
    /\ hidx' = 1
    /\ all_changes' = << >>
    /\ handlers_used' = << >>
    /\ alerts' = << >>
    /\ sent' = << >>
    /\ pc' = "fetch"
    /\ UNCHANGED <<handlers, settings, clock, product_names, csv_file, db_prices, changes>>

\* a process that calls main() up to MaxRuns times, with at most one handler named
\* on its command line
RerunInit == Init /\ Len(handlers) <= 1

RerunNext ==
    \/ Next
    \/ Reinvoke

RerunSpec == RerunInit /\ [][RerunNext]_vars

-----------------------------------------------------------------------------
(* The detectors run on a stored history: storage.get_changes_csv() and       *)
(* storage.get_changes_mysql(product_ids) called on a price history of up to  *)
(* MaxHist observations, both backends holding the same observations.         *)

\* the observations a stored history is drawn from: one pair at every price and
\* tick, and a second pair, grouped apart, that can hold a rise
HistPairs == {<<"Widget", "x-kom">>, <<"Gadget", "mediaexpert">>}
HistRows ==
    {Obs("Widget", "x-kom", a, t) : a \in Prices, t \in Ticks}
    \cup {Obs("Gadget", "mediaexpert", 90, 1), Obs("Gadget", "mediaexpert", 100, 2)}
    \cup {Obs("Gadget", "mediaexpert", Unparseable, 3)}
Histories == UNION {[1..n -> HistRows] : n \in 0..MaxHist}

\* the product_ids argument of get_changes_mysql
IdLists == {<< >>, <<1>>, <<2>>, <<1, 2>>}

DetectInit ==
    /\ run = 1
    /\ pc = "stored"
    \* the file holds the rows as text; the DECIMAL column of the prices table holds
    \* only the rows whose price is a number
    /\ \E hist \in Histories :
          /\ csv_file = hist
          /\ db_prices = SelectSeq(hist, Parseable)
    /\ products = << >>
    /\ handlers = << >>
    /\ settings = [bEnableAlerts |-> TRUE, percentDropThreshold |-> 1000, ProductIDs |-> << >>]
    /\ idx = 1
    /\ sidx = 1
    /\ hidx = 1
    /\ clock = FirstTick
    /\ results = << >>
    /\ scrape_errors = {}
    /\ product_names = << >>
    /\ all_changes = << >>
    /\ handlers_used = << >>
    /\ alerts = << >>
    /\ sent = << >>
    /\ changes = << >>

\* storage.get_changes_csv(), float(row["price"]) raising ValueError in the grouping
\* loop: nothing in get_price_changes_csv or get_changes_csv catches it
CsvDetectorRaises ==
    /\ pc = "stored"
    /\ \E n \in 1..Len(csv_file) : ~Parseable(csv_file[n])
    /\ pc' = "csv_raised"
    /\ UNCHANGED <<run, products, handlers, settings, idx, sidx, hidx, clock, results,
                   scrape_errors, product_names, csv_file, db_prices, all_changes,
                   handlers_used, alerts, sent, changes>>

\* storage.get_changes_csv(), every price parsed
CsvDetector ==
    /\ pc = "stored"
    /\ \A n \in 1..Len(csv_file) : Parseable(csv_file[n])
    /\ changes' = get_price_changes_csv(csv_file)
    /\ pc' = "csv_detected"
    /\ UNCHANGED <<run, products, handlers, settings, idx, sidx, hidx, clock, results,
                   scrape_errors, product_names, csv_file, db_prices, all_changes,
                   handlers_used, alerts, sent>>

\* storage.get_changes_mysql(product_ids), the connection made
MysqlDetector ==
    /\ pc = "stored"
    /\ \E ids \in IdLists :
          /\ settings' = [settings EXCEPT !.ProductIDs = ids]
          /\ \E found \in get_price_changes(db_prices, ids) : changes' = found
    /\ pc' = "mysql_detected"
    /\ UNCHANGED <<run, products, handlers, idx, sidx, hidx, clock, results, scrape_errors,
                   product_names, csv_file, db_prices, all_changes, handlers_used,
                   alerts, sent>>

\* storage.get_changes_mysql(product_ids), mysql.connector.connect raising
MysqlDetectorRaises ==
    /\ pc = "stored"
    /\ \E ids \in IdLists \ {<< >>} : settings' = [settings EXCEPT !.ProductIDs = ids]
    /\ pc' = "raised"
    /\ UNCHANGED <<run, products, handlers, idx, sidx, hidx, clock, results, scrape_errors,
                   product_names, csv_file, db_prices, all_changes, handlers_used,
                   alerts, sent, changes>>

DetectNext ==
    \/ CsvDetector
    \/ CsvDetectorRaises
    \/ MysqlDetector
    \/ MysqlDetectorRaises

DetectSpec == DetectInit /\ [][DetectNext]_vars

-----------------------------------------------------------------------------
(* Vocabulary of the claims about the detectors *)

\* the history a detector run read, and whether a detector has run
Detected == pc \in {"csv_detected", "mysql_detected"}
StoreRead == IF pc = "csv_detected" THEN csv_file ELSE db_prices

\* the positions of a pair's observations in a history
IdxOf(rows, k) == {n \in 1..Len(rows) : KeyOf(rows[n]) = k}

\* the pair has one observation strictly later than all its others, and one
\* strictly later than all the rest: "latest" and "previous" are determined by
\* the timestamps alone
HasLatest(rows, I) == \E i \in I : \A j \in I \ {i} : rows[j].date < rows[i].date
LatestOf(rows, I) == CHOOSE i \in I : \A j \in I \ {i} : rows[j].date < rows[i].date
TopTwoDetermined(rows, k) ==
    /\ Cardinality(IdxOf(rows, k)) >= 2
    /\ HasLatest(rows, IdxOf(rows, k))
    /\ HasLatest(rows, IdxOf(rows, k) \ {LatestOf(rows, IdxOf(rows, k))})
LatestObs(rows, k) == rows[LatestOf(rows, IdxOf(rows, k))]
PreviousObs(rows, k) ==
    rows[LatestOf(rows, IdxOf(rows, k) \ {LatestOf(rows, IdxOf(rows, k))})]

\* the records of a list that carry a key
RecordsIn(cs, k) == {cs[n] : n \in {m \in 1..Len(cs) : ChangeKey(cs[m]) = k}}

\* C6 (as claimed): a pair with exactly one observation gets no ChangeRecord from
\* either detector
C6_SingleObservationNoRecord ==
    Detected => \A n \in 1..Len(changes) :
                    Cardinality(IdxOf(StoreRead, ChangeKey(changes[n]))) # 1

\* C7 (as claimed): a pair whose two most recent observations have equal prices gets
\* no ChangeRecord from either detector
C7_EqualPricesNoRecord ==
    Detected => \A n \in 1..Len(changes) :
                    LET k == ChangeKey(changes[n])
                    IN  TopTwoDetermined(StoreRead, k)
                        => LatestObs(StoreRead, k).price # PreviousObs(StoreRead, k).price

\* C9 (as claimed): when the previous price of a pair is 0 the record's
\* percent_change is exactly 0.0, not null, for either detector
C9_ZeroPreviousPercentZero ==
    Detected => \A n \in 1..Len(changes) :
                    LET k == ChangeKey(changes[n])
                    IN  (TopTwoDetermined(StoreRead, k) /\ PreviousObs(StoreRead, k).price = 0)
                        => changes[n].percent_change = Some(0)

\* the records a detector can emit for a pair from a stored history: the CSV
\* detector's record, or each record the MySQL query can return
PossibleRecords(rows, k) ==
    IF pc = "csv_detected" THEN RecordsIn(get_price_changes_csv(rows), k)
    ELSE UNION {RecordsIn(found, k) : found \in get_price_changes(rows, settings.ProductIDs)}

\* the same observations stored with two neighbouring rows exchanged
Swaps(rows) ==
    {[n \in 1..Len(rows) |-> IF n = m THEN rows[m + 1]
                             ELSE IF n = m + 1 THEN rows[m] ELSE rows[n]] :
        m \in 1..(Len(rows) - 1)}

\* the timestamp of the second of the pair's observations in descending order
SecondDate(rows, k) ==
    LET I == IdxOf(rows, k)
        top == Max({rows[i].date : i \in I})
        tops == {i \in I : rows[i].date = top}
    IN  IF Cardinality(tops) >= 2 THEN top
        ELSE Max({rows[i].date : i \in I \ tops})

InsertAt(rows, pos, r) == SubSeq(rows, 1, pos - 1) \o <<r>> \o SubSeq(rows, pos, Len(rows))

\* the history with one more observation of the pair, older than its two latest,
\* of any price, stored anywhere
OlderInsertions(rows, k) ==
    IF Cardinality(IdxOf(rows, k)) < 2 THEN {}
    ELSE {InsertAt(rows, pos, Obs(k[1], k[2], a, t)) :
             pos \in 1..(Len(rows) + 1), a \in Prices,
             t \in {u \in Ticks : u < SecondDate(rows, k)}}

\* C8 (as claimed): the record emitted for a pair is the same when the stored rows
\* are permuted and when an older observation of the pair is added
C8_PermutationAndOlderRowsIrrelevant ==
    Detected => \A k \in HistPairs :
                    \A v \in Swaps(StoreRead) \cup OlderInsertions(StoreRead, k) :
                        PossibleRecords(v, k) = RecordsIn(changes, k)

\* C8 (amended): for a pair whose latest and previous observations are determined by
\* the timestamps (no other observation of the pair shares either timestamp), the
\* emitted record is the one the detector emits from those two observations alone,
\* and permuting the stored rows or adding an older observation does not change it
C8_TwoLatestDecide ==
    Detected => \A k \in HistPairs :
                    TopTwoDetermined(StoreRead, k)
                    => /\ PossibleRecords(<<PreviousObs(StoreRead, k), LatestObs(StoreRead, k)>>, k)
                            = RecordsIn(changes, k)
                       /\ PossibleRecords(<<LatestObs(StoreRead, k), PreviousObs(StoreRead, k)>>, k)
                            = RecordsIn(changes, k)
                       /\ \A v \in Swaps(StoreRead) \cup OlderInsertions(StoreRead, k) :
                             PossibleRecords(v, k) = RecordsIn(changes, k)

\* a CSV run over three observations of a pair stored latest-first, the oldest at a
\* price of its own, that emitted a record
C8_Witness ==
    /\ pc = "csv_detected"
    /\ \E k \in HistPairs :
          /\ Cardinality(IdxOf(csv_file, k)) = 3
          /\ TopTwoDetermined(csv_file, k)
          /\ LatestOf(csv_file, IdxOf(csv_file, k)) = 1
          /\ \E i \in IdxOf(csv_file, k) :
                /\ csv_file[i].date < PreviousObs(csv_file, k).date
                /\ csv_file[i].price # PreviousObs(csv_file, k).price
                /\ csv_file[i].price # LatestObs(csv_file, k).price
          /\ RecordsIn(changes, k) # {}

-----------------------------------------------------------------------------
(* Vocabulary of the claims about a run of main() *)

\* the product names of products.json of this run
WatchNames == {products[n].name : n \in 1..Len(products)}

\* the change lists a requested backend can report once the handlers have saved
BatchesOf(name) ==
    IF name = "csv" THEN {get_price_changes_csv(csv_file)}
    ELSE get_price_changes(db_prices,
                           ProductIdsOf(settings.ProductIDs, product_names, db_prices))

RECURSIVE BatchListsFrom(_, _, _)
\* the lists of batches of handlers n.., csv and mysql being the batches of each backend
BatchListsFrom(n, csv, mysql) ==
    IF n > Len(handlers) THEN {<< >>}
    ELSE {<<b>> \o rest : b \in (IF handlers[n] = "csv" THEN csv ELSE mysql),
                          rest \in BatchListsFrom(n + 1, csv, mysql)}

\* one change list per requested backend, in the order of the command line
BatchLists ==
    LET csv == BatchesOf("csv")
        mysql == BatchesOf("mysql")
    IN  BatchListsFrom(1, csv, mysql)

RECURSIVE Concat(_, _)
Concat(B, n) == IF n > Len(handlers) THEN << >> ELSE B[n] \o Concat(B, n + 1)

Range(cs) == {cs[n] : n \in 1..Len(cs)}
KeysOf(cs) == {ChangeKey(c) : c \in Range(cs)}

\* the changes the requested backends report in this run
ReportedChanges ==
    UNION {UNION {Range(b) : b \in BatchesOf(name)} : name \in {handlers[n] : n \in 1..Len(handlers)}}

\* the run is past the filter passes
Filtered == pc \in {"classify", "dispatch", "smtp", "done"}

\* the batches handed to send_email_alert
SentBatches == {sent[n].batch : n \in 1..Len(sent)}

\* C1: no change of a pair whose fetch raised in this run is in the alert list or in
\* a batch passed to send_email_alert; when every reported change belongs to a
\* failed pair the alert batch is empty and send_email_alert is not called
C1_FailedPairsNeverAlerted ==
    /\ \A c \in Range(alerts) : ChangeKey(c) \notin scrape_errors
    /\ \A b \in SentBatches : \A c \in Range(b) : ChangeKey(c) \notin scrape_errors
    /\ (pc \in {"dispatch", "smtp", "done"} /\ (alerts # << >> \/ sent # << >>))
       => \E c \in ReportedChanges : ChangeKey(c) \notin scrape_errors

\* a finished run in which the only reported changes are of failed pairs, one of
\* them at or above the threshold, and nothing was sent
C1_Witness ==
    /\ pc = "done"
    /\ settings.bEnableAlerts
    /\ \A c \in ReportedChanges : ChangeKey(c) \in scrape_errors
    /\ \E c \in ReportedChanges :
          /\ ~IsNone(c.percent_change)
          /\ Abs(Val(c.percent_change)) >= settings.percentDropThreshold
    /\ sent = << >>

\* C2: after the two passes the batch is the aggregated batch without the records of
\* failed pairs and without the records of products absent from the watchlist, every
\* other record kept as it was, in order
C2_FilterRemovesExactly ==
    pc = "classify"
    => \E B \in BatchLists :
          LET aggregated == IF Concat(B, 1) # << >> THEN UniqueChanges(Concat(B, 1))
                            ELSE << >>
          IN  all_changes = SelectSeq(aggregated,
                                      LAMBDA c : /\ ChangeKey(c) \notin scrape_errors
                                                 /\ c.product_name \in WatchNames)

\* the passes removed the change of a failed pair and kept the change of another pair
C2_Witness ==
    /\ pc = "classify"
    /\ all_changes # << >>
    /\ \E c \in ReportedChanges : ChangeKey(c) \in scrape_errors /\ c \notin Range(all_changes)

\* C3: applying the scrape-error pass and the watchlist pass again to the filtered
\* batch, with the same failed pairs and watchlist, gives the same sequence
C3_FilterIdempotent ==
    Filtered
    => WatchlistPass(ScrapeErrorPass(all_changes, scrape_errors), product_names) = all_changes

\* a filtered, non-empty batch from which the passes removed a change
C3_Witness ==
    /\ pc = "classify"
    /\ all_changes # << >>
    /\ \E B \in BatchLists : Len(UniqueChanges(Concat(B, 1))) >= Len(all_changes) + 1

\* C4: after aggregation there is one record per reported key, it is the record of
\* the first requested backend that reports the key, and the records are in the
\* order of the concatenated batches
C4_FirstBackendWins ==
    pc = "filter_errors"
    => \E B \in BatchLists :
          LET First(k) == CHOOSE n \in 1..Len(handlers) :
                              /\ k \in KeysOf(B[n])
                              /\ \A m \in 1..(n - 1) : k \notin KeysOf(B[m])
              Pos(k) == CHOOSE i \in 1..Len(B[First(k)]) :
                              /\ ChangeKey(B[First(k)][i]) = k
                              /\ \A j \in 1..(i - 1) : ChangeKey(B[First(k)][j]) # k
          IN  /\ KeysOf(all_changes) = UNION {KeysOf(B[n]) : n \in 1..Len(handlers)}
              /\ \A a \in 1..Len(all_changes) :
                    /\ all_changes[a] = B[First(ChangeKey(all_changes[a]))][Pos(ChangeKey(all_changes[a]))]
                    /\ \A b \in (a + 1)..Len(all_changes) :
                          LET ka == ChangeKey(all_changes[a])
                              kb == ChangeKey(all_changes[b])
                          IN  /\ ka # kb
                              /\ \/ First(ka) < First(kb)
                                 \/ First(ka) = First(kb) /\ Pos(ka) < Pos(kb)

\* two different backends report the same pair with different price changes, and the
\* aggregated batch holds the record of the one requested first
C4_Witness ==
    /\ pc = "filter_errors"
    /\ Len(handlers) = 2
    /\ handlers[1] # handlers[2]
    /\ \E B \in BatchLists : \E x \in Range(B[1]), y \in Range(B[2]) :
          /\ ChangeKey(x) = ChangeKey(y)
          /\ ~IsNone(x.price_diff) /\ ~IsNone(y.price_diff)
          /\ Val(x.price_diff) # 0 /\ Val(y.price_diff) # 0
          /\ Val(x.price_diff) # Val(y.price_diff)
          /\ x \in Range(all_changes)
          /\ y \notin Range(all_changes)

\* C5: the alert batch holds exactly the filtered records whose percent_change is at
\* or beyond the threshold in either direction; a record exactly at the threshold is
\* alerted, one 0.01 short of it is not
C5_ThresholdInclusive ==
    pc = "dispatch"
    => LET t == settings.percentDropThreshold
       IN  /\ alerts = SelectSeq(all_changes,
                                 LAMBDA c : /\ c.percent_change # None
                                            /\ \/ c.percent_change[1] >= t
                                               \/ c.percent_change[1] <= -t)
           /\ \A c \in Range(all_changes) :
                 /\ c.percent_change \in {Some(t), Some(-t)} => c \in Range(alerts)
                 /\ c.percent_change \in {Some(t - 1), Some(1 - t)} => c \notin Range(alerts)

\* a drop of exactly the threshold (price 1.00 then 0.90, -10.00 % at threshold 10.00)
\* is in the alert batch
C5_Witness ==
    /\ pc = "dispatch"
    /\ \E c \in Range(alerts) :
          /\ c.percent_change = Some(-settings.percentDropThreshold)
          /\ Val(c.price_diff) < 0

\* C10: a change of a product that is not in products.json of this run is not in the
\* batch that reaches classification, nor in the alert batch, nor in a batch sent
C10_UnwatchedNeverClassified ==
    Filtered
    => /\ \A c \in Range(all_changes) : c.product_name \in WatchNames
       /\ \A c \in Range(alerts) : c.product_name \in WatchNames
       /\ \A b \in SentBatches : \A c \in Range(b) : c.product_name \in WatchNames

\* a backend reports a change at or above the threshold for a product that is not on
\* the watchlist, and the run is at classification
C10_Witness ==
    /\ pc = "classify"
    /\ \E c \in ReportedChanges :
          /\ c.product_name \notin WatchNames
          /\ ~IsNone(c.percent_change)
          /\ Abs(Val(c.percent_change)) >= settings.percentDropThreshold

-----------------------------------------------------------------------------
(* The two detectors on the same history *)

\* what a change list says: per record the pair, the price, the difference and the
\* percentage
SemanticsOf(cs) ==
    {[key |-> ChangeKey(c), price |-> c.price, price_diff |-> c.price_diff,
      percent_change |-> c.percent_change] : c \in Range(cs)}

\* every product of the stored history is among the ids the MySQL detector was given
AllSelected ==
    \A n \in 1..Len(db_prices) :
        \E m \in 1..Len(settings.ProductIDs) :
            settings.ProductIDs[m] = ProductId(db_prices[n].product)

\* C11 (as claimed): run on the same history, with every product selected, the MySQL
\* detector returns records for the same pairs as the CSV detector, with the same
\* price, price_diff and percent_change
C11_DetectorsAgree ==
    (pc = "mysql_detected" /\ csv_file = db_prices /\ AllSelected)
    => SemanticsOf(changes) = SemanticsOf(get_price_changes_csv(csv_file))

\* C12 (as claimed): a row of the CSV file whose price cannot be parsed is left out
\* of the grouping, the detection does not abort, and the change list is the one the
\* detector returns for the file without that row
C12_MalformedRowSkipped ==
    /\ pc # "csv_raised"
    /\ pc = "csv_detected" => changes = get_price_changes_csv(SelectSeq(csv_file, Parseable))

-----------------------------------------------------------------------------
(* Claims about how a run of main() ends *)

\* C13 (as claimed): a backend that cannot be reached while the changes are collected
\* counts as a backend without observations; no exception leaves main() and the run
\* goes on with the changes of the other backends
C13_UnreachableBackendContinues ==
    pc # "raised"

\* a step of main() other than an exception leaving it
Continues ==
    \/ BeginProduct
    \/ FetchOk
    \/ FetchFail
    \/ EndFetch
    \/ SaveCsv
    \/ SaveMysql
    \/ AlertsConfig
    \/ DetectMysql
    \/ DetectCsv
    \/ Aggregate
    \/ FilterScrapeErrors
    \/ FilterWatchlist
    \/ Classify
    \/ Dispatch
    \/ SmtpSession
    \/ NoDispatch

\* the detection loop is at a requested backend
Detecting == pc = "detect" /\ hidx <= Len(handlers)

\* the detector of the backend the loop is at returns a change list, the connection
\* made: every price of the CSV file is parsed, the MySQL query has a result
DetectorReturns ==
    IF handlers[hidx] = "csv"
    THEN \A n \in 1..Len(csv_file) : Parseable(csv_file[n])
    ELSE get_price_changes(db_prices,
                           ProductIdsOf(settings.ProductIDs, product_names, db_prices)) # {}

\* the previous price of the pair of a change record is 0
FromZero(c) == c.price_diff = Some(c.price) /\ c.price # 0

\* C14: whatever the stored histories hold (no or one observation of a pair, a
\* previous price of 0, changes that are all filtered out), main() can always take its
\* next step without an exception (in the detection loop: the detector returns a
\* list), an exception leaves it only from a MySQL
\* connection in the detection loop, and a run that ends with nothing above the
\* threshold has an empty alert batch and has not called send_email_alert
C14_EdgeCasesNeverRaise ==
    /\ pc \notin {"done", "raised"} => IF Detecting THEN DetectorReturns ELSE ENABLED Continues
    /\ pc = "raised" => (hidx <= Len(handlers) /\ handlers[hidx] = "mysql")
    /\ (pc = "done" /\ \A c \in Range(all_changes) : ~Alerted(c, settings.percentDropThreshold))
       => (alerts = << >> /\ sent = << >>)

\* a run with alerts enabled that has ended normally without a call of
\* send_email_alert, a requested backend reporting a change from a previous price of 0
C14_Witness ==
    /\ pc = "done"
    /\ settings.bEnableAlerts
    /\ sent = << >>
    /\ \E c \in ReportedChanges : FromZero(c)

-----------------------------------------------------------------------------
(* Claims about the alert batch and its dispatch *)

\* no two records of the batch have the same (product_name, shop_name)
DistinctKeys(cs) ==
    \A a, b \in 1..Len(cs) : a # b => ChangeKey(cs[a]) # ChangeKey(cs[b])

\* every record of the batch has a percent_change of magnitude >= the threshold
Qualified(cs) ==
    \A c \in Range(cs) :
        /\ c.percent_change # None
        /\ Abs(c.percent_change[1]) >= settings.percentDropThreshold

\* C15: the alert list and every batch given to send_email_alert hold at most one
\* record per (product_name, shop_name), each with abs(percent_change) >= threshold,
\* whatever backends were requested, in whatever order, a backend twice included
C15_BatchDeduplicatedAndQualified ==
    /\ DistinctKeys(alerts) /\ Qualified(alerts)
    /\ \A b \in SentBatches : DistinctKeys(b) /\ Qualified(b)

\* the same backend was requested twice, reported the same qualifying change both
\* times, and a batch was given to send_email_alert
C15_Witness ==
    /\ Len(handlers) = 2
    /\ handlers[1] = handlers[2]
    /\ sent # << >>
    /\ \E B \in BatchLists : \E c \in Range(B[1]) :
          /\ c \in Range(B[2])
          /\ c \in Range(sent[1].batch)

\* C16: in a run of main() send_email_alert is called at most once; a run that has
\* ended with a non-empty alert list has called it exactly once, with the whole list;
\* while the alert list is empty it has not been called
C16_OneDispatchPerRun ==
    /\ Len(sent) <= 1
    /\ (pc = "done" /\ alerts # << >>) => (Len(sent) = 1 /\ sent[1].batch = alerts)
    /\ alerts = << >> => sent = << >>

\* a finished run whose single call of send_email_alert got a batch with a change
\* reported by the CSV backend and a change reported by the MySQL backend
C16_Witness ==
    /\ pc = "done"
    /\ Len(sent) = 1
    /\ \E x, y \in Range(sent[1].batch) : IsNone(x.product_id) /\ ~IsNone(y.product_id)

\* the rows of results are the last rows of the CSV file
Persisted == /\ Len(csv_file) >= Len(results)
             /\ SubSeq(csv_file, Len(csv_file) - Len(results) + 1, Len(csv_file)) = results

C18_AlertsDisabled ==
    ~settings.bEnableAlerts
    => /\ pc \in {"fetch", "shops", "save", "done"}
       /\ handlers_used = << >>
       /\ all_changes = << >>
       /\ alerts = << >>
       /\ sent = << >>
       /\ (pc = "done" /\ Uses(handlers, "csv")) => Persisted

\* a finished run with alerts disabled although a requested backend holds a change at
\* or above the threshold for a watched pair whose fetch did not fail
C18_Witness ==
    /\ pc = "done"
    /\ ~settings.bEnableAlerts
    /\ \E c \in ReportedChanges :
          /\ Alerted(c, settings.percentDropThreshold)
          /\ ChangeKey(c) \notin scrape_errors
          /\ c.product_name \in WatchNames

-----------------------------------------------------------------------------
(* Claims about the fetch pass *)

\* the (product_name, shop_name) pairs of products.json: the fetch attempts of the run
Attempts ==
    UNION {{<<products[n].name, products[n].shops[m].name>> : m \in 1..Len(products[n].shops)} :
              n \in 1..Len(products)}

\* the attempts that did not append an observation to results: get_price raised
FailedAttempts == Attempts \ {KeyOf(results[n]) : n \in 1..Len(results)}

\* the fetch loop has ended
FetchDone == pc \notin {"fetch", "shops"}

\* C20: from the end of the fetch loop on, so when the scrape-error pass starts and
\* ever after, scrape_errors is exactly the set of pairs whose fetch raised in this
\* run, the pairs of shops without a registered parser among them
C20_FailuresRecordedBeforeFilter ==
    FetchDone
    => /\ scrape_errors = FailedAttempts
       /\ \A k \in Attempts : k[2] \notin CORE_HANDLERS => k \in scrape_errors

\* the scrape-error pass is about to start on a non-empty batch, after the fetch of
\* a shop with a parser and the fetch of a shop without one have both raised
C20_Witness ==
    /\ pc = "filter_errors"
    /\ all_changes # << >>
    /\ \E k \in scrape_errors : k[2] \in CORE_HANDLERS
    /\ \E k \in scrape_errors : k[2] \notin CORE_HANDLERS

-----------------------------------------------------------------------------
(* Claims about main() invoked more than once in a process *)

\* an invocation of main() is at its first statement
Invoked == pc = "fetch" /\ idx = 1

\* C19 (as claimed): in every invocation of main() the watchlist used by the filter
\* is the product list of that invocation, so that no change of a product absent from
\* it passes the filter; the failed pairs are those of that invocation; and the MySQL
\* product-id selection starts from the configured value
C19_StatelessAcrossRuns ==
    /\ FetchDone => Range(product_names) = WatchNames
    /\ Filtered => \A c \in Range(all_changes) : c.product_name \in WatchNames
    /\ FetchDone => scrape_errors = FailedAttempts
    /\ Invoked => \E s \in SettingsChoices : settings.ProductIDs = s.ProductIDs

-----------------------------------------------------------------------------
(* Claims about the order of the stages *)

\* the observations of this run that a store holds
SavedIn(store) == {store[n] : n \in {m \in 1..Len(store) : store[m].date >= FirstTick}}

\* the detection loop has been entered
PastSave == pc \notin {"fetch", "shops", "save"}

\* a backend's change detection has read its history and returned
HistoryRead == handlers_used # << >> /\ pc # "raised"

\* the observation fetched in this run for the pair of a change record, if any
FetchedFor(c) == {results[n] : n \in {m \in 1..Len(results) : KeyOf(results[m]) = ChangeKey(c)}}

\* C21 (as claimed): nothing is written to a backend before the fetch pass has ended;
\* when detection starts every requested backend holds every observation of this run,
\* so a change record of a pair fetched in this run carries the price and the time of
\* that fetch; no change is collected before the handlers have saved, no alert list is
\* built before the filter passes have run, and send_email_alert is called only after
\* classification
C21_StagesInOrder ==
    /\ pc \in {"fetch", "shops"} => (SavedIn(csv_file) = {} /\ SavedIn(db_prices) = {})
    /\ HistoryRead =>
          /\ Uses(handlers, "csv") => Range(results) \subseteq SavedIn(csv_file)
          /\ Uses(handlers, "mysql") => Range(results) \subseteq SavedIn(db_prices)
    /\ \A c \in Range(all_changes) : \A r \in FetchedFor(c) :
          c.price = r.price /\ c.timestamp = r.date
    /\ ~PastSave => (all_changes = << >> /\ handlers_used = << >>)
    /\ pc \notin {"dispatch", "smtp", "done"} => alerts = << >>
    /\ pc \notin {"smtp", "done"} => sent = << >>

RECURSIVE IsSubseq(_, _)
\* a is b with some elements left out, the others unchanged and in b's order
IsSubseq(a, b) ==
    IF a = << >> THEN TRUE
    ELSE IF b = << >> THEN FALSE
    ELSE IF a[1] = b[1] THEN IsSubseq(Tail(a), Tail(b))
    ELSE IsSubseq(a, Tail(b))

\* unique_changes of the batches B of the requested backends
AggregatedOf(B) == IF Concat(B, 1) # << >> THEN UniqueChanges(Concat(B, 1)) ELSE << >>

\* C22: the batch after the scrape-error pass and after the watchlist pass is a
\* subsequence of the aggregated sequence, the alert list is a subsequence of the
\* filtered batch, and so is every batch passed to send_email_alert: the passes and
\* the classification only leave records out, they neither reorder, add nor alter them
C22_FiltersPreserveOrder ==
    /\ (pc \in {"filter_watchlist", "classify", "dispatch"} /\ all_changes # << >>)
       => \E B \in BatchLists :
             LET aggregated == AggregatedOf(B)
             IN  IsSubseq(all_changes, aggregated) /\ IsSubseq(alerts, aggregated)
    /\ alerts # << >> => IsSubseq(alerts, all_changes)
    /\ \A n \in 1..Len(sent) : IsSubseq(sent[n].batch, all_changes)

\* classification has built an alert list of two records while a record reported by
\* a backend is in no alert
C22_Witness ==
    /\ pc = "dispatch"
    /\ Len(alerts) >= 2
    /\ \E c \in ReportedChanges : c \notin Range(alerts)

-----------------------------------------------------------------------------
(* Claims about the outcome of a fetch attempt *)

\* the pairs whose get_price call has returned or raised so far in this run
AttemptsMade ==
    UNION {{<<products[n].name, products[n].shops[m].name>> :
               m \in {i \in 1..Len(products[n].shops) :
                         n < idx \/ (n = idx /\ pc = "shops" /\ i < sidx)}} :
              n \in {i \in 1..Len(products) : i <= idx}}

\* the pairs with an observation in results
Fetched == {KeyOf(results[n]) : n \in 1..Len(results)}

\* C23: every fetch attempt made so far has exactly one outcome, one observation of
\* its pair in results or its pair in scrape_errors, never both and never neither;
\* when the fetch loop has ended every pair of products.json has been attempted,
\* whatever failed before it; and every row a backend has received in this run is an
\* observation of results, so none is of a failed pair
C23_OneOutcomePerAttempt ==
    LET fetched == Fetched
    IN  /\ fetched \cap scrape_errors = {}
        /\ fetched \cup scrape_errors = (IF FetchDone THEN Attempts ELSE AttemptsMade)
        /\ Len(results) = Cardinality(fetched)
        /\ \A r \in SavedIn(csv_file) \cup SavedIn(db_prices) :
              r \in Range(results) /\ KeyOf(r) \notin scrape_errors

\* the first attempt of the run failed, a later one succeeded and its observation has
\* been saved by a storage handler
C23_Witness ==
    /\ PastSave
    /\ <<products[1].name, products[1].shops[1].name>> \in scrape_errors
    /\ results # << >>
    /\ SavedIn(csv_file) \cup SavedIn(db_prices) = Range(results)

====
